---- MODULE Spec2Model ----
(***************************************************************************)
(* Prompt template manager (src/main.py): a Flask application over a       *)
(* Datastore (NDB) collection of PromptTemplate entities.                  *)
(*                                                                         *)
(* Strings are sequences of one-character strings, so that the regular     *)
(* expression of the variable extractor, str.lower, str.split, the         *)
(* substring test and the template engine are computed character by        *)
(* character.                                                              *)
(***************************************************************************)
EXTENDS Integers, Sequences, FiniteSets, TLC

VARIABLES store, nextId, now, resp, procs, renders, deleted

vars == <<store, nextId, now, resp, procs, renders, deleted>>

(***************************************************************************)
(* Bounds of the model.                                                    *)
(***************************************************************************)
MaxId == 2          \* ids the store hands out: 1..MaxId
MaxClock == 1       \* the clock reads 0..MaxClock
MaxUsage == 2       \* renders are issued while the counter is below this
NumProcs == 2       \* concurrently served requests

Ids == 1..MaxId
Procs == 1..NumProcs

\* Python's None: what get_by_id answers for an absent key.
None == [none |-> TRUE]
\* created_date before the first put (auto_now_add has not run yet).
NoDate == -1

(***************************************************************************)
(* Strings.                                                                *)
(***************************************************************************)
\* str.lower on the letters the inputs use.
LowerChar(c) ==
    CASE c = "A" -> "a"
      [] c = "B" -> "b"
      [] c = "W" -> "w"
      [] OTHER -> c

Lower(s) == [i \in 1..Len(s) |-> LowerChar(s[i])]

\* Python's `needle in hay` on strings: needle occurs at some offset.
RECURSIVE OccursFrom(_, _, _)
OccursFrom(needle, hay, i) ==
    IF i + Len(needle) - 1 > Len(hay) THEN FALSE
    ELSE IF SubSeq(hay, i, i + Len(needle) - 1) = needle THEN TRUE
    ELSE OccursFrom(needle, hay, i + 1)

StrIn(needle, hay) == OccursFrom(needle, hay, 1)

\* Python's `x in list`.
ListIn(x, list) == \E i \in 1..Len(list) : list[i] = x

\* str.split(','): the pieces between commas, empty pieces kept, no trimming.
RECURSIVE SplitFrom(_, _, _)
SplitFrom(s, i, cur) ==
    IF i > Len(s) THEN <<cur>>
    ELSE IF s[i] = "," THEN <<cur>> \o SplitFrom(s, i + 1, <<>>)
    ELSE SplitFrom(s, i + 1, Append(cur, s[i]))

Split(s) == SplitFrom(s, 1, <<>>)

\* request.form['tags'].split(',') if request.form['tags'] else []
ParseTags(s) == IF s # <<>> THEN Split(s) ELSE <<>>

(***************************************************************************)
(* The variable extractor: re.findall(r'\{\{(\w+)\}\}', template_text).    *)
(***************************************************************************)
\* \w on the characters the inputs use.
IsWord(c) == c \in {"a", "b", "A", "B", "W", "_"}

\* Length of the longest run of \w characters starting at i (\w+ is greedy,
\* and the character after the run must be "}", which is not \w).
RECURSIVE WordRun(_, _)
WordRun(s, i) ==
    IF i <= Len(s) /\ IsWord(s[i]) THEN 1 + WordRun(s, i + 1) ELSE 0

\* Length of the match of \{\{(\w+)\}\} at position i, 0 when there is none.
MatchLen(s, i) ==
    IF i + 1 <= Len(s) /\ s[i] = "{" /\ s[i + 1] = "{"
    THEN LET n == WordRun(s, i + 2)
         IN  IF /\ n >= 1
                /\ i + n + 3 <= Len(s)
                /\ s[i + n + 2] = "}"
                /\ s[i + n + 3] = "}"
             THEN n + 4
             ELSE 0
    ELSE 0

\* findall: leftmost non-overlapping matches, the group of each, in order.
RECURSIVE FindAllFrom(_, _)
FindAllFrom(s, i) ==
    IF i > Len(s) THEN <<>>
    ELSE LET m == MatchLen(s, i)
         IN  IF m > 0
             THEN <<SubSeq(s, i + 2, i + m - 3)>> \o FindAllFrom(s, i + m)
             ELSE FindAllFrom(s, i + 1)

FindAll(s) == FindAllFrom(s, 1)

(***************************************************************************)
(* The template engine: jinja2.Template(body).render of the variables, on *)
(* bodies over the characters "{", "}", " " and the letters of IsWord.     *)
(* Over these characters the only delimiter is "{{" ... "}}", and the only *)
(* well-formed expressions are a single name and the empty dict "{}".      *)
(***************************************************************************)
LBrace == [t |-> "lbrace", v |-> <<>>]
RBrace == [t |-> "rbrace", v |-> <<>>]
NameTok(v) == [t |-> "name", v |-> v]

\* The lexer's root state: the first "{{" at or after i, 0 when there is none.
RECURSIVE FindOpen(_, _)
FindOpen(s, i) ==
    IF i + 1 > Len(s) THEN 0
    ELSE IF s[i] = "{" /\ s[i + 1] = "{" THEN i
    ELSE FindOpen(s, i + 1)

\* The lexer inside "{{": "}}" ends the block only while no brace is open;
\* blanks are skipped; "{" opens and "}" closes a brace (a "}" with none open
\* is an error); a run of identifier characters is one name; the end of the
\* body inside the block is an error.
RECURSIVE LexExpr(_, _, _, _)
LexExpr(s, k, depth, toks) ==
    IF k > Len(s) THEN [ok |-> FALSE, toks |-> toks, next |-> k]
    ELSE IF depth = 0 /\ k + 1 <= Len(s) /\ s[k] = "}" /\ s[k + 1] = "}"
         THEN [ok |-> TRUE, toks |-> toks, next |-> k + 2]
    ELSE IF s[k] = " " THEN LexExpr(s, k + 1, depth, toks)
    ELSE IF s[k] = "{" THEN LexExpr(s, k + 1, depth + 1, Append(toks, LBrace))
    ELSE IF s[k] = "}"
         THEN IF depth = 0
              THEN [ok |-> FALSE, toks |-> toks, next |-> k]
              ELSE LexExpr(s, k + 1, depth - 1, Append(toks, RBrace))
    ELSE LET n == WordRun(s, k)
         IN  LexExpr(s, k + n, depth, Append(toks, NameTok(SubSeq(s, k, k + n - 1))))

\* The parser: the tokens of a block must be one expression.
IsNameExpr(toks) == Len(toks) = 1 /\ toks[1].t = "name"
IsDictExpr(toks) == toks = <<LBrace, RBrace>>

\* Context lookup: the first pair with this key; an undefined name prints as
\* the empty string (jinja2's default Undefined).
RECURSIVE Lookup(_, _, _)
Lookup(m, name, i) ==
    IF i > Len(m) THEN <<>>
    ELSE IF m[i].k = name THEN m[i].v
    ELSE Lookup(m, name, i + 1)

\* Rendering from position i: [ok, out, refs], refs the names the body reads.
RECURSIVE RenderFrom(_, _, _)
RenderFrom(s, i, m) ==
    LET j == FindOpen(s, i)
    IN  IF j = 0
        THEN [ok |-> TRUE, out |-> SubSeq(s, i, Len(s)), refs |-> {}]
        ELSE LET lx == LexExpr(s, j + 2, 0, <<>>)
                 data == SubSeq(s, i, j - 1)
             IN  IF ~lx.ok \/ ~(IsNameExpr(lx.toks) \/ IsDictExpr(lx.toks))
                 THEN [ok |-> FALSE, out |-> <<>>, refs |-> {}]
                 ELSE LET rest == RenderFrom(s, lx.next, m)
                          val == IF IsNameExpr(lx.toks)
                                 THEN Lookup(m, lx.toks[1].v, 1)
                                 ELSE <<"{", "}">>
                          ref == IF IsNameExpr(lx.toks)
                                 THEN {lx.toks[1].v}
                                 ELSE {}
                      IN  IF ~rest.ok
                          THEN [ok |-> FALSE, out |-> <<>>, refs |-> {}]
                          ELSE [ok |-> TRUE,
                                out |-> data \o val \o rest.out,
                                refs |-> ref \cup rest.refs]

\* request.json: a JSON object holds its [k, v] pairs, with distinct keys, in
\* the order sent; a JSON array holds its items; null holds nothing.
JsonObject(pairs) == [kind |-> "object", items |-> pairs]
JsonArray(items) == [kind |-> "array", items |-> items]
JsonNull == [kind |-> "null", items |-> <<>>]

\* variables = request.json if request.json else {}: null, {} and [] are falsy.
JsonVariables(json) == IF json.items = <<>> THEN JsonObject(<<>>) ELSE json

\* Template(template.template).render with the variables, inside the try
\* block: unpacking anything but a mapping raises TypeError.
JinjaRender(body, variables) ==
    IF variables.kind # "object"
    THEN [ok |-> FALSE, out |-> <<>>, refs |-> {}]
    ELSE RenderFrom(body, 1, variables.items)

\* list(variables.keys())
Keys(variables) == [i \in 1..Len(variables.items) |-> variables.items[i].k]

(***************************************************************************)
(* The entity and the store.                                               *)
(***************************************************************************)
\* PromptTemplate(name=..., description=..., template=..., category=...,
\* tags=..., variables=...): created_date is unset until the first put and
\* usage_count takes its default.
NewTemplate(form) ==
    [name          |-> form.name,
     description   |-> form.description,
     template      |-> form.template,
     category      |-> form.category,
     tags          |-> ParseTags(form.tags),
     variables     |-> FindAll(form.template),
     created_date  |-> NoDate,
     modified_date |-> NoDate,
     usage_count   |-> 0]

\* An edit that keeps the variables extracted at an earlier save.
EditedTemplate_StaleVariables(rec, form) ==
    [rec EXCEPT !.name        = form.name,
                !.description = form.description,
                !.template    = form.template,
                !.category    = form.category,
                !.tags        = ParseTags(form.tags)]

\* The assignments of the edit handler to the entity it fetched.
EditedTemplate(rec, form) ==
    [rec EXCEPT !.name        = form.name,
                !.description = form.description,
                !.template    = form.template,
                !.category    = form.category,
                !.tags        = ParseTags(form.tags),
                !.variables   = FindAll(form.template)]

\* The counter assigned instead of incremented.
Used_Assigned(rec) == [rec EXCEPT !.usage_count = 1]

\* template.usage_count += 1
Used(rec) == [rec EXCEPT !.usage_count = @ + 1]

\* request.form[...] raises (400) when a field is absent: a form is a record
\* of the fields that were sent.
FormComplete(form) ==
    {"name", "description", "template", "category", "tags"} \subseteq DOMAIN form

\* A put whose created_date is refreshed like modified_date.
Put_RefreshCreated(s, id, rec, t) ==
    LET written == [rec EXCEPT !.created_date  = t,
                               !.modified_date = t]
    IN  [i \in DOMAIN s \cup {id} |-> IF i = id THEN written ELSE s[i]]

\* entity.put() at clock t under key id: auto_now_add fills created_date when
\* it is unset, auto_now refreshes modified_date; the entity is written whole,
\* whether or not the key is present. required=True refuses only a property
\* whose value is None: every string a form carries, the empty one too, is a
\* value, so a put of a handler's entity is never refused.
Put(s, id, rec, t) ==
    LET written == [rec EXCEPT !.created_date  = IF @ = NoDate THEN t ELSE @,
                               !.modified_date = t]
    IN  [i \in DOMAIN s \cup {id} |-> IF i = id THEN written ELSE s[i]]

\* A delete that never reaches the store.
Remove_Nothing(s, id) == s

\* key.delete()
Remove(s, id) == [i \in DOMAIN s \ {id} |-> s[i]]

\* PromptTemplate.get_by_id(id)
GetById(s, id) == IF id \in DOMAIN s THEN s[id] ELSE None

(***************************************************************************)
(* Requests the clients send.                                              *)
(***************************************************************************)
Form(name, description, template, category, tags) ==
    [name |-> name, description |-> description, template |-> template,
     category |-> category, tags |-> tags]

\* "a {{a}}"
BodyGreeting == <<"a", " ", "{", "{", "a", "}", "}">>
\* "{{a}}{{b}}{{ a }}": the last block is a placeholder of the engine only
BodyTwo == <<"{", "{", "a", "}", "}", "{", "{", "b", "}", "}",
             "{", "{", " ", "a", " ", "}", "}">>
\* "{{{a}}}": the extractor finds a, the engine refuses the body
BodyBroken == <<"{", "{", "{", "a", "}", "}", "}">>

\* Create and edit submissions: bodies with and without placeholders, an
\* empty name, an empty body, and a submission that lacks the name field.
Forms ==
    { Form(<<"A">>, <<"a">>, BodyGreeting, "Ops", <<"a", ",", "b">>),
      Form(<<"B">>, <<>>, BodyTwo, "", <<>>),
      Form(<<>>, <<>>, BodyBroken, "Ops", <<>>),
      Form(<<"A">>, <<>>, <<>>, "", <<>>),
      [description |-> <<>>, template |-> BodyGreeting, category |-> "",
       tags |-> <<>>] }

Pair(k, v) == [k |-> k, v |-> v]

\* Render request bodies: null, {"a": "W"}, {"a": "W", "b": "B"}, ["a"].
Jsons ==
    { JsonNull,
      JsonObject(<<Pair(<<"a">>, <<"W">>)>>),
      JsonObject(<<Pair(<<"a">>, <<"W">>), Pair(<<"b">>, <<"B">>)>>),
      JsonArray(<<<<"a">>>>) }

Methods == {"GET", "POST"}

\* Records and queries that tell the search filters apart.
SearchForms ==
    { Form(<<"W", "a">>, <<"b">>, <<"a">>, "Marketing", <<"a", ",", "b">>),
      Form(<<"A", "b">>, <<"W">>, <<"a">>, "Ops", <<"b">>),
      Form(<<"a">>, <<>>, <<"a">>, "", <<>>) }

Queries == { <<>>, <<"W", "A">>, <<"b">> }
Categories == { "", "Ops" }
Tags == { <<>>, <<"b">> }

\* Submissions and request bodies of the concurrently served requests.
ConcForms ==
    { Form(<<"A">>, <<"a">>, BodyGreeting, "Ops", <<>>),
      Form(<<"B">>, <<>>, <<>>, "", <<>>) }

ConcJsons == { JsonNull }

(***************************************************************************)
(* Responses.                                                              *)
(***************************************************************************)
Response(op, id, status, req, body) ==
    [op |-> op, id |-> id, status |-> status, req |-> req, body |-> body]

Idle == [pc |-> "idle", id |-> 0, local |-> None]

\* The ids whose delete request has completed, with id added. A key the store
\* never handed out names no record yet, and its delete is not recorded.
Completed(id) == IF id < nextId THEN deleted \cup {id} ELSE deleted

\* No render is issued for an id once MaxUsage of them were.
InFlight(id) ==
    Cardinality({p \in Procs : procs[p].pc = "render_put" /\ procs[p].id = id})

RenderBudget(id) == renders[id] + InFlight(id) < MaxUsage

Init ==
    /\ store = << >>
    /\ nextId = 1
    /\ now = 0
    /\ resp = Response("none", 0, 0, None, None)
    /\ procs = [p \in Procs |-> Idle]
    /\ renders = [i \in Ids |-> 0]
    /\ deleted = {}

\* The clock of auto_now and auto_now_add advances.
Tick ==
    /\ now < MaxClock
    /\ now' = now + 1
    /\ UNCHANGED <<store, nextId, resp, procs, renders, deleted>>

(***************************************************************************)
(* The handlers, each served from start to end.                            *)
(***************************************************************************)
\* What the view, edit and render handlers answer first: 404 for an absent id.
FetchStatus(s, id) == IF GetById(s, id) = None THEN 404 ELSE 200

\* GET /template/<id>
view_template(id) ==
    /\ resp' = Response("view", id, FetchStatus(store, id), None, None)
    /\ UNCHANGED <<store, nextId, now, procs, renders, deleted>>

\* GET, POST /create
create_template(method, form) ==
    IF method = "POST"
    THEN IF ~FormComplete(form)
         THEN /\ resp' = Response("create", 0, 400, form, None)
              /\ UNCHANGED <<store, nextId, now, procs, renders, deleted>>
         ELSE /\ nextId <= MaxId
              /\ store' = Put(store, nextId, NewTemplate(form), now)
              /\ nextId' = nextId + 1
              /\ resp' = Response("create", nextId, 302, form, None)
              /\ UNCHANGED <<now, procs, renders, deleted>>
    ELSE /\ resp' = Response("create", 0, 200, None, None)
         /\ UNCHANGED <<store, nextId, now, procs, renders, deleted>>

\* GET, POST /edit/<id>
edit_template(id, method, form) ==
    LET template == GetById(store, id)
    IN  IF template = None
        THEN /\ resp' = Response("edit", id, 404, None, None)
             /\ UNCHANGED <<store, nextId, now, procs, renders, deleted>>
        ELSE IF method = "POST"
        THEN IF ~FormComplete(form)
             THEN /\ resp' = Response("edit", id, 400, None, None)
                  /\ UNCHANGED <<store, nextId, now, procs, renders, deleted>>
             ELSE /\ store' = Put(store, id, EditedTemplate(template, form), now)
                  /\ resp' = Response("edit", id, 302, None, None)
                  /\ UNCHANGED <<nextId, now, procs, renders, deleted>>
        ELSE /\ resp' = Response("edit", id, 200, None, None)
             /\ UNCHANGED <<store, nextId, now, procs, renders, deleted>>

\* The JSON payload of a successful render.
RenderPayload(template, variables, rendered) ==
    [rendered       |-> rendered,
     template_name  |-> template.name,
     variables_used |-> Keys(variables)]

\* POST /api/render/<id>
render_template_api(id, json) ==
    LET template == GetById(store, id)
        variables == JsonVariables(json)
    IN  IF template = None
        THEN /\ resp' = Response("render", id, 404, None, None)
             /\ UNCHANGED <<store, nextId, now, procs, renders, deleted>>
        ELSE LET r == JinjaRender(template.template, variables)
             IN  IF ~r.ok
                 THEN /\ resp' = Response("render", id, 400, None, None)
                      /\ UNCHANGED <<store, nextId, now, procs, renders, deleted>>
                 ELSE /\ RenderBudget(id)
                      /\ store' = Put(store, id, Used(template), now)
                      /\ renders' = [renders EXCEPT ![id] = @ + 1]
                      /\ resp' = Response("render", id, 200, json,
                                          RenderPayload(template, variables, r.out))
                      /\ UNCHANGED <<nextId, now, procs, deleted>>

\* POST /delete/<id>
delete_template(id) ==
    /\ store' = IF GetById(store, id) # None THEN Remove(store, id) ELSE store
    /\ deleted' = Completed(id)
    /\ resp' = Response("delete", id, 302, None, None)
    /\ UNCHANGED <<nextId, now, procs, renders>>

\* PromptTemplate.query().filter(category == c).fetch(): the entities in key
\* order, each with its key.
RECURSIVE FetchFrom(_, _, _)
FetchFrom(s, category, i) ==
    IF i >= nextId THEN <<>>
    ELSE IF i \in DOMAIN s /\ (category = "" \/ s[i].category = category)
         THEN <<[id |-> i, rec |-> s[i]]>> \o FetchFrom(s, category, i + 1)
         ELSE FetchFrom(s, category, i + 1)

\* The filter loop of the search handler.
RECURSIVE FilterFrom(_, _, _, _)
FilterFrom(templates, query, tag, i) ==
    IF i > Len(templates) THEN <<>>
    ELSE LET t == templates[i].rec
         IN  IF /\ query # <<>>
                /\ ~StrIn(query, Lower(t.name))
                /\ ~StrIn(query, Lower(t.description))
             THEN FilterFrom(templates, query, tag, i + 1)
             ELSE IF tag # <<>> /\ ~ListIn(tag, t.tags)
             THEN FilterFrom(templates, query, tag, i + 1)
             ELSE <<templates[i]>> \o FilterFrom(templates, query, tag, i + 1)

Summary(t) ==
    [id           |-> t.id,
     name         |-> t.rec.name,
     description  |-> t.rec.description,
     category     |-> t.rec.category,
     tags         |-> t.rec.tags,
     created_date |-> t.rec.created_date]

\* A search that compares the query as typed.
SearchResult_CaseSensitive(s, q, category, tag) ==
    LET filtered == FilterFrom(FetchFrom(s, category, 1), q, tag, 1)
    IN  [i \in 1..Len(filtered) |-> Summary(filtered[i])]

\* query = request.args.get('q', '').lower(), the fetch, the filter loop and
\* the conversion to summaries.
SearchResult(s, q, category, tag) ==
    LET filtered == FilterFrom(FetchFrom(s, category, 1), Lower(q), tag, 1)
    IN  [i \in 1..Len(filtered) |-> Summary(filtered[i])]

\* GET /api/search
search_templates(q, category, tag) ==
    /\ resp' = Response("search", 0, 200,
                        [q |-> q, category |-> category, tag |-> tag],
                        SearchResult(store, q, category, tag))
    /\ UNCHANGED <<store, nextId, now, procs, renders, deleted>>

(***************************************************************************)
(* The handlers served concurrently: each request is a step that reads the *)
(* store (get_by_id) and, later, a step that writes it (put, key.delete).  *)
(* Between the two the entity lives in the request's own memory.           *)
(***************************************************************************)
\* POST /edit/<id>, up to the put.
EditGet(p, id, form) ==
    /\ procs[p].pc = "idle"
    /\ LET template == GetById(store, id)
       IN  IF template = None
           THEN /\ resp' = Response("edit", id, 404, None, None)
                /\ UNCHANGED procs
           ELSE IF ~FormComplete(form)
           THEN /\ resp' = Response("edit", id, 400, None, None)
                /\ UNCHANGED procs
           ELSE /\ procs' = [procs EXCEPT ![p] =
                                [pc |-> "edit_put", id |-> id,
                                 local |-> EditedTemplate(template, form)]]
                /\ UNCHANGED resp
    /\ UNCHANGED <<store, nextId, now, renders, deleted>>

\* template.put() of the edit, and the redirect.
EditPut(p) ==
    /\ procs[p].pc = "edit_put"
    /\ store' = Put(store, procs[p].id, procs[p].local, now)
    /\ resp' = Response("edit", procs[p].id, 302, None, None)
    /\ procs' = [procs EXCEPT ![p] = Idle]
    /\ UNCHANGED <<nextId, now, renders, deleted>>

\* POST /api/render/<id>, up to the put: the fetch, the rendering and the
\* increment of the fetched entity's counter.
RenderGet(p, id, json) ==
    /\ procs[p].pc = "idle"
    /\ LET template == GetById(store, id)
           variables == JsonVariables(json)
       IN  IF template = None
           THEN /\ resp' = Response("render", id, 404, None, None)
                /\ UNCHANGED procs
           ELSE IF ~JinjaRender(template.template, variables).ok
           THEN /\ resp' = Response("render", id, 400, None, None)
                /\ UNCHANGED procs
           ELSE /\ RenderBudget(id)
                /\ procs' = [procs EXCEPT ![p] =
                                [pc |-> "render_put", id |-> id,
                                 local |-> Used(template)]]
                /\ UNCHANGED resp
    /\ UNCHANGED <<store, nextId, now, renders, deleted>>

\* template.put() of the render, and the payload.
RenderPut(p) ==
    /\ procs[p].pc = "render_put"
    /\ store' = Put(store, procs[p].id, procs[p].local, now)
    /\ renders' = [renders EXCEPT ![procs[p].id] = @ + 1]
    /\ resp' = Response("render", procs[p].id, 200, None, None)
    /\ procs' = [procs EXCEPT ![p] = Idle]
    /\ UNCHANGED <<nextId, now, deleted>>

\* POST /delete/<id>, up to key.delete(): an absent id is answered at once.
DeleteGet(p, id) ==
    /\ procs[p].pc = "idle"
    /\ IF GetById(store, id) = None
       THEN /\ resp' = Response("delete", id, 302, None, None)
            /\ deleted' = Completed(id)
            /\ UNCHANGED procs
       ELSE /\ procs' = [procs EXCEPT ![p] =
                            [pc |-> "delete_key", id |-> id, local |-> None]]
            /\ UNCHANGED <<resp, deleted>>
    /\ UNCHANGED <<store, nextId, now, renders>>

\* template.key.delete(), and the redirect.
DeleteKey(p) ==
    /\ procs[p].pc = "delete_key"
    /\ store' = Remove(store, procs[p].id)
    /\ deleted' = Completed(procs[p].id)
    /\ resp' = Response("delete", procs[p].id, 302, None, None)
    /\ procs' = [procs EXCEPT ![p] = Idle]
    /\ UNCHANGED <<nextId, now, renders>>

AllIdle == \A p \in Procs : procs[p].pc = "idle"

(***************************************************************************)
(* Specifications.                                                         *)
(***************************************************************************)
\* Requests served one at a time.
Next ==
    \/ \E id \in Ids : view_template(id)
    \/ \E method \in Methods, form \in Forms : create_template(method, form)
    \/ \E id \in Ids, method \in Methods, form \in Forms :
           edit_template(id, method, form)
    \/ \E id \in Ids, json \in Jsons : render_template_api(id, json)
    \/ \E id \in Ids : delete_template(id)

Spec == Init /\ [][Next]_vars

\* Requests served one at a time, while the clock advances.
NextClock ==
    \/ Tick
    \/ \E form \in ConcForms : create_template("POST", form)
    \/ \E id \in Ids, form \in ConcForms : edit_template(id, "POST", form)
    \/ \E id \in Ids, json \in ConcJsons : render_template_api(id, json)
    \/ \E id \in Ids : delete_template(id)

SpecClock == Init /\ [][NextClock]_vars

\* Requests served one at a time, and searches.
NextSearch ==
    \/ Tick
    \/ \E form \in SearchForms : create_template("POST", form)
    \/ \E id \in Ids, form \in SearchForms : edit_template(id, "POST", form)
    \/ \E id \in Ids : delete_template(id)
    \/ \E q \in Queries, category \in Categories, tag \in Tags :
           search_templates(q, category, tag)

SpecSearch == Init /\ [][NextSearch]_vars

\* Render requests served concurrently.
NextRenders ==
    \/ \E form \in ConcForms : create_template("POST", form)
    \/ \E p \in Procs, id \in Ids, json \in ConcJsons : RenderGet(p, id, json)
    \/ \E p \in Procs : RenderPut(p)

SpecRenders == Init /\ [][NextRenders]_vars

\* Edit, render and delete requests served concurrently.
NextConc ==
    \/ \E form \in ConcForms : create_template("POST", form)
    \/ \E p \in Procs, id \in Ids, form \in ConcForms : EditGet(p, id, form)
    \/ \E p \in Procs : EditPut(p)
    \/ \E p \in Procs, id \in Ids, json \in ConcJsons : RenderGet(p, id, json)
    \/ \E p \in Procs : RenderPut(p)
    \/ \E p \in Procs, id \in Ids : DeleteGet(p, id)
    \/ \E p \in Procs : DeleteKey(p)

SpecConc == Init /\ [][NextConc]_vars

(***************************************************************************)
(* Properties.                                                             *)
(***************************************************************************)
Range(seq) == {seq[i] : i \in 1..Len(seq)}

\* C1: every stored record's variables are exactly the placeholder names the
\* extractor yields on the record's current body.
C1_VariablesMatchBody ==
    \A id \in DOMAIN store : store[id].variables = FindAll(store[id].template)

\* An edit replaced a body by one with other placeholders, and was saved.
C1_Witness ==
    /\ resp.op = "edit" /\ resp.status = 302
    /\ store[resp.id].template = BodyTwo
    /\ store[resp.id].variables = << <<"a">>, <<"b">> >>
    /\ renders[resp.id] > 0

\* C2: a successful render raises the usage_count of its template by exactly
\* one and leaves every other counter alone; a failed render (404 for an
\* absent id, 400 for a rendering error) changes no counter; so every stored
\* counter equals the number of successful renders of its template.
C2_RenderCountsOnce ==
    [][resp'.op = "render" =>
        LET id == resp'.id
        IN  /\ DOMAIN store' = DOMAIN store
            /\ \A i \in DOMAIN store \ {id} :
                   store'[i].usage_count = store[i].usage_count
            /\ resp'.status \in {200, 400, 404}
            /\ resp'.status = 404 <=> id \notin DOMAIN store
            /\ resp'.status = 200 =>
                   store'[id].usage_count = store[id].usage_count + 1
            /\ resp'.status = 400 =>
                   store'[id].usage_count = store[id].usage_count
            /\ \A i \in DOMAIN store' : store'[i].usage_count = renders'[i]
    ]_vars

\* Two renders succeeded, the body was then broken, and a third render failed.
C2_Witness ==
    /\ resp.op = "render" /\ resp.status = 400
    /\ renders[resp.id] = 2
    /\ store[resp.id].usage_count = 2

\* C3: when render requests for one template run concurrently and all of them
\* have succeeded, the counter has grown by the number of those requests.
C3_NoLostIncrement ==
    AllIdle => \A id \in DOMAIN store : store[id].usage_count = renders[id]

\* C4: no step lowers the usage_count of a stored record.
C4_UsageNeverDecreases ==
    [][\A id \in DOMAIN store \cap DOMAIN store' :
           store'[id].usage_count >= store[id].usage_count]_vars

\* C5: a saved edit (a step that answers the edit's redirect; the clock does
\* not advance in it) leaves the record under its id with the created_date and
\* the usage_count it had, stamps its modified_date, and leaves every other
\* record as it was.
C5_EditFrame ==
    [][(resp'.op = "edit" /\ resp'.status = 302 /\ now' = now) =>
        LET id == resp'.id
        IN  /\ id \in DOMAIN store
            /\ DOMAIN store' = DOMAIN store
            /\ store'[id].created_date = store[id].created_date
            /\ store'[id].usage_count = store[id].usage_count
            /\ store'[id].modified_date = now
            /\ \A i \in DOMAIN store \ {id} : store'[i] = store[i]
    ]_vars

\* A rendered record was edited at a later clock reading, beside another one.
C5_Witness ==
    /\ resp.op = "edit" /\ resp.status = 302
    /\ store[resp.id].usage_count > 0
    /\ store[resp.id].created_date < store[resp.id].modified_date
    /\ Cardinality(DOMAIN store) = 2

\* C6: a delete request is answered with the redirect whether or not the id
\* is present; afterwards the id is absent (the view, edit and render handlers
\* answer 404), every other record is as it was, and a second delete of the
\* id leaves the store as the first left it.
C6_DeleteIdempotent ==
    [][resp'.op = "delete" =>
        LET id == resp'.id
        IN  /\ resp'.status = 302
            /\ DOMAIN store' = DOMAIN store \ {id}
            /\ FetchStatus(store', id) = 404
            /\ \A i \in DOMAIN store' : store'[i] = store[i]
            /\ (IF GetById(store', id) # None
                THEN Remove(store', id)
                ELSE store') = store'
    ]_vars

\* A record was deleted and another one is still stored.
C6_Witness ==
    /\ resp.op = "delete" /\ resp.status = 302
    /\ resp.id \in deleted
    /\ resp.id \notin DOMAIN store
    /\ DOMAIN store # {}

\* A case-insensitive substring: some stretch of hay reads as needle when
\* both are lowered.
ContainsIgnoringCase(hay, needle) ==
    \E i \in 1..(Len(hay) + 1), j \in 0..Len(hay) :
        Lower(SubSeq(hay, i, j)) = Lower(needle)

Matches(rec, q, category, tag) ==
    /\ q # <<>> => \/ ContainsIgnoringCase(rec.name, q)
                   \/ ContainsIgnoringCase(rec.description, q)
    /\ category # "" => rec.category = category
    /\ tag # <<>> => tag \in Range(rec.tags)

\* C7: the search answers one summary for each stored record that satisfies
\* every supplied filter and for no other record, and changes no record.
C7_SearchExact ==
    [][resp'.op = "search" =>
        LET found == resp'.body
            req == resp'.req
        IN  /\ store' = store
            /\ {found[k].id : k \in 1..Len(found)} =
                   {id \in DOMAIN store :
                        Matches(store[id], req.q, req.category, req.tag)}
            /\ \A k, l \in 1..Len(found) : found[k].id = found[l].id => k = l
            /\ \A k \in 1..Len(found) :
                   LET rec == store[found[k].id]
                   IN  /\ found[k].name = rec.name
                       /\ found[k].description = rec.description
                       /\ found[k].category = rec.category
                       /\ found[k].tags = rec.tags
                       /\ found[k].created_date = rec.created_date
    ]_vars

\* A search with all three filters found one of two stored records, the
\* query in capitals.
C7_Witness ==
    /\ resp.op = "search"
    /\ resp.req.q = <<"W", "A">> /\ resp.req.category = "" /\ resp.req.tag = <<"b">>
    /\ Len(resp.body) = 1
    /\ Cardinality(DOMAIN store) = 2

\* A submission that carries an empty name or an empty body.
EmptyRequired(form) ==
    \/ "name" \in DOMAIN form /\ form.name = <<>>
    \/ "template" \in DOMAIN form /\ form.template = <<>>

\* C8: a create submission whose name or body is empty is refused and stores
\* nothing, so no stored record has an empty name or an empty body.
C8_EmptyRefused ==
    [][/\ (resp'.op = "create" /\ EmptyRequired(resp'.req)) =>
              (store' = store /\ resp'.status = 400)
       /\ \A id \in DOMAIN store' :
              store'[id].name # <<>> /\ store'[id].template # <<>>
    ]_vars

\* C9: the variables_used of a successful render are exactly the supplied
\* names that the body references.
C9_VariablesUsedAreReferenced ==
    (resp.op = "render" /\ resp.status = 200) =>
        LET variables == JsonVariables(resp.req)
        IN  Range(resp.body.variables_used) =
                Range(Keys(variables)) \cap
                JinjaRender(store[resp.id].template, variables).refs

\* C10: once a delete request for an id has completed, no state holds a record
\* with that id; and only a create adds a record to the store.
C10_DeletedStaysDeleted ==
    [][/\ \A id \in deleted' : id \notin DOMAIN store'
       /\ DOMAIN store' \subseteq DOMAIN store \/ resp'.op = "create"
    ]_vars

====
